---- MODULE Spec2Model ----
(***************************************************************************)
(* The CORD-19 dashboard of streamlit_app.py: load_data() and the query    *)
(* part of main() (widget options, filtering, key metrics, quick insights, *)
(* the per-year series, search, sampling and the row panels).              *)
(*                                                                         *)
(* A nullable cell is a record: [null |-> TRUE] for a missing value (NaN,  *)
(* NaT) and [null |-> FALSE, v |-> value] otherwise.  Text is a sequence   *)
(* of one-character strings.  A table (DataFrame) is a sequence of rows;   *)
(* every row carries its index label idx.  The plotly charts and the       *)
(* month, source, author and abstract-length series are not modelled.      *)
(* Input domain: the CSV has at least one data row, every authors cell is  *)
(* present and has_full_text is a boolean column.                          *)
(***************************************************************************)
EXTENDS Integers, Sequences, FiniteSets, TLC

VARIABLES
    fileExists,         \* whether cord19_metadata.csv exists
    csv,                \* the rows of the file as read_csv returns them
    cache,              \* the memo of @st.cache_data around load_data
    reads,              \* number of pd.read_csv calls so far
    loaded0,            \* the table load_data produced on the first call
    selected_years,     \* widget state of the three multiselects
    selected_journals,
    selected_sources,
    search_term,        \* widget state of the text input
    run                 \* what the latest script run computed

vars == <<fileExists, csv, cache, reads, loaded0, selected_years,
          selected_journals, selected_sources, search_term, run>>

----------------------------------------------------------------------------
(* Bounds of the model *)

MaxRows == 2

(* Program constants *)

JournalOptionCount == 20
SampleSize == 5
ResultsShown == 10
TitleShown == 100
AbstractShown == 500

----------------------------------------------------------------------------
(* Cells and text *)

NaN == [null |-> TRUE]

Val(v) == [null |-> FALSE, v |-> v]

Min(a, b) == IF a <= b THEN a ELSE b

Range(s) == {s[i] : i \in 1..Len(s)}

NO_ABSTRACT ==
    <<"N","o"," ","a","b","s","t","r","a","c","t"," ",
      "a","v","a","i","l","a","b","l","e">>

UNKNOWN_JOURNAL == "Unknown Journal"

NO_DOI == "No DOI available"

(* re.IGNORECASE compares letters by their lower-case form *)
Lower(c) ==
    CASE c = "K" -> "k"
      [] c = "Q" -> "q"
      [] c = "N" -> "n"
      [] c = "O" -> "o"
      [] OTHER -> c

(* text[:n] *)
Prefix(text, n) == SubSeq(text, 1, Min(n, Len(text)))

----------------------------------------------------------------------------
(* The input: rows of the CSV file *)

Date(y, m, d) == [null |-> FALSE, y |-> y, m |-> m, d |-> d]

RawRow(title, authors, journal, source, time, abstract, doi, full) ==
    [title |-> title, authors |-> authors, journal |-> journal,
     source_x |-> Val(source), publish_time |-> time, abstract |-> abstract,
     doi |-> doi, has_full_text |-> full]

RowA == RawRow(Val(<<"K","q">>), <<"x",",","y">>, Val("J1"), "S1",
               Date(2020, 3, 15), NaN, Val("10.1/a"), TRUE)

RowB == RawRow(Val(<<"u">>), <<"x">>, Val("J2"), "S2",
               Date(2021, 1, 5), Val(<<"k","q","z">>), NaN, FALSE)

RowC == RawRow(Val(<<"o">>), <<"y",",","z",",","w">>, Val("J1"), "S1",
               Date(2020, 11, 2), Val(<<"o">>), Val("10.1/c"), FALSE)

(* a publish_time cell whose text is no date *)
Unparseable == [null |-> FALSE, bad |-> TRUE]

(* title, journal and doi missing, publish_time not a date *)
RowD == RawRow(NaN, <<"z">>, NaN, "S2",
               Unparseable, Val(<<"b">>), NaN, TRUE)

RowPool == {RowA, RowB, RowC, RowD}

Tables == UNION {[1..n -> RowPool] : n \in 1..MaxRows}

(* what the user may type in the search box *)
Terms == {<<>>, <<"k","Q">>, <<"N","O">>, <<".">>}

----------------------------------------------------------------------------
(* load_data *)

NaT == NaN

(* pd.to_datetime(..., errors='coerce'): text that is no date becomes NaT *)
to_datetime(cell) ==
    IF cell.null \/ "bad" \in DOMAIN cell THEN NaT ELSE cell

(* .dt.year and .dt.month: NaN for NaT *)
dt_year(t) == IF t.null THEN NaN ELSE Val(t.y)

dt_month(t) == IF t.null THEN NaN ELSE Val(t.m)

fillna(cell, value) == IF cell.null THEN Val(value) ELSE cell

(* number of "," in a text *)
Commas(text) == Cardinality({i \in 1..Len(text) : text[i] = ","})

(* .str.split(',').str.len() *)
split_len(text) == Val(Commas(text) + 1)

(* .str.len() *)
str_len(cell) == IF cell.null THEN NaN ELSE Val(Len(cell.v))

(* one row of the frame load_data returns; idx is the row's index label *)
CleanRow(raw, i) ==
    LET t == to_datetime(raw.publish_time)
        a == fillna(raw.abstract, NO_ABSTRACT)
    IN  [idx |-> i - 1,
         title |-> raw.title,
         authors |-> raw.authors,
         journal |-> fillna(raw.journal, UNKNOWN_JOURNAL),
         source_x |-> raw.source_x,
         publish_time |-> t,
         publish_year |-> dt_year(t),
         publish_month |-> dt_month(t),
         abstract |-> a,
         doi |-> fillna(raw.doi, NO_DOI),
         has_full_text |-> raw.has_full_text,
         author_count |-> split_len(raw.authors),
         abstract_length |-> str_len(a)]

Clean(rows) == [i \in 1..Len(rows) |-> CleanRow(rows[i], i)]

None == [none |-> TRUE]

Frame(rows) == [none |-> FALSE, rows |-> rows]

(* the body of load_data: the frame, or None after st.error *)
load_data_body(exists, rows) ==
    IF exists
    THEN [value |-> Frame(Clean(rows)), message |-> FALSE]
    ELSE [value |-> None, message |-> TRUE]

NoEntry == [hit |-> FALSE]

Entry(r) == [hit |-> TRUE, value |-> r.value, message |-> r.message]

(* @st.cache_data: the first call runs the body and stores its value and  *)
(* the st.error element; later calls replay the stored entry              *)
load_data(c, exists, rows) ==
    IF c.hit THEN c ELSE Entry(load_data_body(exists, rows))

----------------------------------------------------------------------------
(* Series operations of pandas, as main uses them *)

(* frame[name]: one column of a table *)
Column(rows, name) == [i \in 1..Len(rows) |-> rows[i][name]]

NotNull(cell) == ~cell.null

dropna(col) == SelectSeq(col, NotNull)

(* the values of a column, nulls left out *)
Values(col) == {c.v : c \in {x \in Range(col) : ~x.null}}

Occurrences(col, v) ==
    Cardinality({i \in 1..Len(col) : ~col[i].null /\ col[i].v = v})

FirstSeen(col, v) ==
    CHOOSE i \in 1..Len(col) :
        /\ ~col[i].null /\ col[i].v = v
        /\ \A j \in 1..(i - 1) : col[j].null \/ col[j].v # v

(* the elements of S in the order Before, a strict total order on S *)
Ordered(S, Before(_, _)) ==
    [n \in 1..Cardinality(S) |->
        CHOOSE k \in S : Cardinality({j \in S : Before(j, k)}) = n - 1]

(* .value_counts(): one entry per value, nulls dropped, most frequent    *)
(* first, equal counts in order of first occurrence                      *)
value_counts(col) ==
    LET Before(a, b) ==
            \/ Occurrences(col, a) > Occurrences(col, b)
            \/ /\ Occurrences(col, a) = Occurrences(col, b)
               /\ FirstSeen(col, a) < FirstSeen(col, b)
        keys == Ordered(Values(col), Before)
    IN  [n \in 1..Len(keys) |->
            [key |-> Val(keys[n]), count |-> Occurrences(col, keys[n])]]

(* .sort_index() of a series keyed by numbers: ascending, a null key last *)
sort_index(series) ==
    LET Before(a, b) ==
            /\ ~a.key.null
            /\ (b.key.null \/ a.key.v < b.key.v)
    IN  Ordered(Range(series), Before)

(* .head(n) *)
head(seq, n) == SubSeq(seq, 1, Min(n, Len(seq)))

(* .isin(values): a null cell is in no list of values *)
isin(cell, values) == ~cell.null /\ cell.v \in values

(* the values .mode() returns: the most frequent non-null values *)
mode(col) ==
    {v \in Values(col) :
        \A w \in Values(col) : Occurrences(col, w) <= Occurrences(col, v)}

(* the order in which .mode() lists text values *)
TextRank(t) ==
    CASE t = "J1" -> 1
      [] t = "J2" -> 2
      [] t = "S1" -> 3
      [] t = "S2" -> 4
      [] t = UNKNOWN_JOURNAL -> 5
      [] OTHER -> 6

Sum(col) ==
    LET RECURSIVE Add(_)
        Add(n) == IF n = 0 THEN 0 ELSE Add(n - 1) + col[n].v
    IN  Add(Len(col))

(* a float result: num / den *)
Frac(n, d) == Val([num |-> n, den |-> d])

(* .mean(): nulls skipped; NaN when nothing is left *)
mean(col) ==
    LET c == dropna(col)
    IN  IF Len(c) = 0 THEN NaN ELSE Frac(Sum(c), Len(c))

----------------------------------------------------------------------------
(* main, lines 80-111: the options of the sidebar and the filters *)

(* sorted(df['publish_year'].dropna().unique()) *)
available_years(df) == Values(Column(df, "publish_year"))

(* df['journal'].value_counts().head(20).index *)
top_journals(df) ==
    LET top == head(value_counts(Column(df, "journal")), JournalOptionCount)
    IN  {e.key.v : e \in Range(top)}

(* df['source_x'].unique() *)
sources(df) == Values(Column(df, "source_x"))

(* frame[mask]: the rows the mask keeps, in the frame's order *)
Where(rows, Keep(_)) == SelectSeq(rows, Keep)

(* the filters with the journal mask computed and not assigned *)
Filtered_journals_dropped(df, years, journals, srcs) ==
    LET InYears(r) == isin(r.publish_year, years)
        InSources(r) == isin(r.source_x, srcs)
        f1 == IF years # {} THEN Where(df, InYears) ELSE df
    IN  IF srcs # {} THEN Where(f1, InSources) ELSE f1

(* the filters without the tests for an empty selection *)
Filtered_always(df, years, journals, srcs) ==
    LET Keep(r) == /\ isin(r.publish_year, years)
                   /\ isin(r.journal, journals)
                   /\ isin(r.source_x, srcs)
    IN  Where(df, Keep)

(* the filters with the values that are in no row taken out of the      *)
(* selections before they are tested for being empty                     *)
Filtered_known_only(df, years, journals, srcs) ==
    LET ys == years \cap Values(Column(df, "publish_year"))
        js == journals \cap Values(Column(df, "journal"))
        ss == srcs \cap Values(Column(df, "source_x"))
        Keep(r) == /\ ys = {} \/ isin(r.publish_year, ys)
                   /\ js = {} \/ isin(r.journal, js)
                   /\ ss = {} \/ isin(r.source_x, ss)
    IN  Where(df, Keep)

(* lines 105-111: the value of filtered_df *)
Filtered(df, years, journals, srcs) ==
    LET InYears(r) == isin(r.publish_year, years)
        InJournals(r) == isin(r.journal, journals)
        InSources(r) == isin(r.source_x, srcs)
        f0 == df
        f1 == IF years # {} THEN Where(f0, InYears) ELSE f0
        f2 == IF journals # {} THEN Where(f1, InJournals) ELSE f1
        f3 == IF srcs # {} THEN Where(f2, InSources) ELSE f2
    IN  f3

(* the filters applied to df itself, without the copy *)
ApplyFilters_inplace(df, years, journals, srcs) ==
    [df |-> Filtered(df, years, journals, srcs),
     filtered_df |-> Filtered(df, years, journals, srcs)]

(* lines 105-111 as a statement: df is left alone, filtered_df is bound *)
ApplyFilters(df, years, journals, srcs) ==
    [df |-> df, filtered_df |-> Filtered(df, years, journals, srcs)]

----------------------------------------------------------------------------
(* main, lines 116-188: the Overview tab *)

NA == [na |-> TRUE]

Shown(v) == [na |-> FALSE, v |-> v]

Raise(name) == [raised |-> name]

Return(v) == [raised |-> "none", value |-> v]

(* numpy's n / d for d >= n >= 0: 0 / 0 is nan (with a RuntimeWarning) *)
true_divide(n, d) == IF d = 0 THEN NaN ELSE Frac(n, d)

(* x * 100 *)
times100(x) == IF x.null THEN NaN ELSE Frac(100 * x.v.num, x.v.den)

TrueCount(rows, Test(_)) == Len(SelectSeq(rows, Test))

(* lines 122-147: the four metric cards *)
key_metrics(df, f) ==
    LET FullText(r) == r.has_full_text
    IN  [total |-> Len(f),
         delta |-> IF Len(f) # Len(df) THEN Val(Len(f) - Len(df)) ELSE NaN,
         unique_journals |-> Cardinality(Values(Column(f, "journal"))),
         avg_authors |-> mean(Column(f, "author_count")),
         full_text_pct |-> times100(true_divide(TrueCount(f, FullText), Len(f)))]

DateKey(t) == t.y * 10000 + t.m * 100 + t.d

(* .min() and .max() of a datetime column: NaT skipped, NaT if none left *)
time_min(col) ==
    LET c == Range(dropna(col))
    IN  IF c = {} THEN NaT
        ELSE CHOOSE t \in c : \A u \in c : DateKey(t) <= DateKey(u)

time_max(col) ==
    LET c == Range(dropna(col))
    IN  IF c = {} THEN NaT
        ELSE CHOOSE t \in c : \A u \in c : DateKey(t) >= DateKey(u)

(* t.strftime('%Y-%m-%d'); NaT has no strftime *)
strftime(t) ==
    IF t.null THEN Raise("ValueError")
    ELSE Return(<<t.y, "-", t.m, "-", t.d>>)

(* .mode().iloc[0] of a column of numbers: the smallest of the most     *)
(* frequent values; the mode of an all-null column is empty              *)
mode_first(col) ==
    LET m == mode(col)
    IN  IF m = {} THEN Raise("IndexError")
        ELSE Return(CHOOSE v \in m : \A w \in m : v <= w)

(* the same for a column of text *)
mode_first_text(col) ==
    LET m == mode(col)
    IN  IF m = {} THEN Raise("IndexError")
        ELSE Return(CHOOSE v \in m : \A w \in m : TextRank(v) <= TextRank(w))

(* lines 164-169: the arguments of the first insight box, left to right *)
publication_patterns(f) ==
    IF Len(f) = 0
    THEN Return([most_active_year |-> NA, date_min |-> NA, date_max |-> NA,
                 avg_abstract_length |-> Frac(0, 1)])
    ELSE LET y == mode_first(Column(f, "publish_year"))
             lo == strftime(time_min(Column(f, "publish_time")))
             hi == strftime(time_max(Column(f, "publish_time")))
         IN  IF y.raised # "none" THEN y
             ELSE IF lo.raised # "none" THEN lo
             ELSE IF hi.raised # "none" THEN hi
             ELSE Return([most_active_year |-> Shown(y.value),
                          date_min |-> Shown(lo.value),
                          date_max |-> Shown(hi.value),
                          avg_abstract_length |->
                              mean(Column(f, "abstract_length"))])

(* lines 172-188: the second insight box *)
top_contributors(f) ==
    IF Len(f) = 0
    THEN Return([top_source |-> NA, top_journal |-> NA,
                 complete_pct |-> Frac(0, 1)])
    ELSE LET s == mode_first_text(Column(f, "source_x"))
             j == mode_first_text(Column(f, "journal"))
             HasAbstract(r) == r.abstract.v # NO_ABSTRACT
         IN  IF s.raised # "none" THEN s
             ELSE IF j.raised # "none" THEN j
             ELSE Return([top_source |-> Shown(s.value),
                          top_journal |-> Shown(j.value),
                          complete_pct |->
                              times100(true_divide(TrueCount(f, HasAbstract),
                                                   Len(f)))])

----------------------------------------------------------------------------
(* main, lines 196-197: the Trends tab's series of publications by year *)

(* the series without .sort_index() *)
yearly_counts_unsorted(f) == value_counts(Column(f, "publish_year"))

yearly_counts(f) == sort_index(value_counts(Column(f, "publish_year")))

----------------------------------------------------------------------------
(* main, lines 289-331: the Search tab *)

(* the pattern at position i of the text: the term is a regular        *)
(* expression (regex=True is the default of str.contains); of its syntax *)
(* the model has "." for any character and letters for themselves        *)
MatchAt(term, text, i) ==
    \A k \in 1..Len(term) :
        term[k] = "." \/ Lower(term[k]) = Lower(text[i + k - 1])

(* regex.search(text) under re.IGNORECASE *)
re_search(term, text) ==
    \E i \in 1..(Len(text) - Len(term) + 1) : MatchAt(term, text, i)

(* .str.contains(term, case=False, na=False) on one cell *)
str_contains(cell, term) ==
    IF cell.null THEN FALSE ELSE re_search(term, cell.v)

(* read_csv gives a column with no text in it the dtype float64, which  *)
(* has no .str accessor; a filtered frame keeps the dtype                *)
has_str_accessor(df, name) == \E i \in 1..Len(df) : ~df[i][name].null

(* lines 297-299 *)
search(df, f, term) ==
    LET Hit(r) == str_contains(r.title, term) \/ str_contains(r.abstract, term)
    IN  IF ~has_str_accessor(df, "title") \/ ~has_str_accessor(df, "abstract")
        THEN Raise("AttributeError")
        ELSE Return(Where(f, Hit))

(* the results .sample(n) can give: n different rows in any order *)
Samples(f, n) ==
    LET picks == {p \in [1..n -> 1..Len(f)] :
                     \A a, b \in 1..n : a # b => p[a] # p[b]}
    IN  {[i \in 1..n |-> f[p[i]]] : p \in picks}

(* lines 306-315 and 322-331: one expander *)
panel(paper) ==
    [title |-> Prefix(paper.title.v, TitleShown),
     authors |-> paper.authors,
     journal |-> paper.journal.v,
     published |-> IF ~paper.publish_time.null
                   THEN strftime(paper.publish_time).value
                   ELSE <<"Unknown">>,
     source |-> paper.source_x.v,
     full_text |-> IF paper.has_full_text THEN "Yes" ELSE "No",
     abstract |-> Prefix(paper.abstract.v, AbstractShown),
     doi |-> IF paper.doi.v # NO_DOI THEN Shown(paper.doi.v) ELSE NA]

(* the loop over the papers: paper['title'][:100] of a missing title is *)
(* a slice of a float                                                    *)
panels(papers) ==
    IF \E i \in 1..Len(papers) : papers[i].title.null
    THEN Raise("TypeError")
    ELSE Return([i \in 1..Len(papers) |-> panel(papers[i])])

----------------------------------------------------------------------------
(* One run of the script *)

Blank ==
    [phase |-> "none", done |-> {}, error |-> "none", message |-> FALSE,
     df |-> None, filtered_df |-> <<>>, metrics |-> NA, patterns |-> NA,
     contributors |-> NA, yearly_counts |-> <<>>, search_results |-> <<>>,
     sample_papers |-> <<>>, panels |-> <<>>]

Raised(r, name) == [r EXCEPT !.phase = "raised", !.error = name]

(* main without the test of line 71 *)
returns_never(df) == FALSE

(* line 71: if df is None *)
returns_early(df) == df.none

(* lines 317-331: the branch without a search term, for one outcome of *)
(* filtered_df.sample(min(5, len(filtered_df)))                         *)
sample_branch(r, sample) ==
    LET r2 == [r EXCEPT !.done = @ \cup {"sample"}, !.sample_papers = sample]
        shown == panels(sample)
    IN  IF shown.raised # "none" THEN Raised(r2, shown.raised)
        ELSE [r2 EXCEPT !.phase = "complete",
                        !.done = @ \cup {"panels"},
                        !.panels = shown.value]

(* lines 289-315: the search box and the branch with a search term; the *)
(* run is left at line 319, phase "sampling", when there is no term      *)
search_tab(r, df, f, term) ==
    LET r1 == [r EXCEPT !.done = @ \cup {"tab4"}]
    IN  IF term # <<>>
        THEN LET res == search(df, f, term)
                 r2 == [r1 EXCEPT !.done = @ \cup {"search"},
                                  !.search_results = res.value]
                 shown == panels(head(res.value, ResultsShown))
             IN  IF res.raised # "none" THEN Raised(r1, res.raised)
                 ELSE IF shown.raised # "none" THEN Raised(r2, shown.raised)
                 ELSE [r2 EXCEPT !.phase = "complete",
                                 !.done = @ \cup {"panels"},
                                 !.panels = shown.value]
        ELSE [r1 EXCEPT !.phase = "sampling"]

(* lines 74-315 *)
dashboard(r, df, years, journals, srcs, term) ==
    LET a == ApplyFilters(df, years, journals, srcs)
        f == a.filtered_df
        r1 == [r EXCEPT !.done = @ \cup {"sidebar", "filter", "metrics"},
                        !.df = Frame(a.df),
                        !.filtered_df = f,
                        !.metrics = key_metrics(a.df, f)]
        pp == publication_patterns(f)
        tc == top_contributors(f)
        r2 == [r1 EXCEPT !.done = @ \cup {"insights", "by_year"},
                         !.patterns = pp.value,
                         !.contributors = tc.value,
                         !.yearly_counts = yearly_counts(f)]
    IN  IF pp.raised # "none" THEN Raised(r1, pp.raised)
        ELSE IF tc.raised # "none" THEN Raised(r1, tc.raised)
        ELSE search_tab(r2, a.df, f, term)

(* main() up to line 319: entry is what load_data() gave *)
main(entry, years, journals, srcs, term) ==
    LET r == [Blank EXCEPT !.done = {"load"}, !.message = entry.message,
                           !.df = entry.value]
    IN  IF returns_early(entry.value) THEN [r EXCEPT !.phase = "stopped"]
        ELSE IF entry.value.none
        THEN Raised(r, "TypeError")     \* line 81: None['publish_year']
        ELSE dashboard(r, entry.value.rows, years, journals, srcs, term)

----------------------------------------------------------------------------
(* The dashboard: the first run of the script and the reruns that the   *)
(* widgets trigger                                                       *)

Init ==
    /\ fileExists \in BOOLEAN
    /\ csv \in (IF fileExists THEN Tables ELSE {<<>>})
    /\ cache = NoEntry
    /\ reads = 0
    /\ loaded0 = None
    /\ selected_years = {}
    /\ selected_journals = {}
    /\ selected_sources = {}
    /\ search_term = <<>>
    /\ run = Blank

(* line 319: filtered_df.sample(min(5, len(filtered_df))) *)
sample_papers(f) == Samples(f, Min(SampleSize, Len(f)))

(* one run of the script with the given widget values *)
Script(years, journals, srcs, term) ==
    LET entry == load_data(cache, fileExists, csv)
        m == main(entry, years, journals, srcs, term)
    IN  /\ cache' = entry
        /\ reads' = IF cache.hit THEN reads ELSE reads + 1
        /\ loaded0' = IF cache.hit THEN loaded0 ELSE entry.value
        /\ selected_years' = years
        /\ selected_journals' = journals
        /\ selected_sources' = srcs
        /\ search_term' = term
        /\ IF m.phase = "sampling"
           THEN \E sample \in sample_papers(m.filtered_df) :
                    run' = sample_branch(m, sample)
           ELSE run' = m
        /\ UNCHANGED <<fileExists, csv>>

(* the page is opened: the multiselects take their defaults *)
FirstRun ==
    /\ run.phase = "none"
    /\ LET entry == load_data(cache, fileExists, csv)
       IN  IF entry.value.none
           THEN Script({}, {}, {}, <<>>)
           ELSE Script(available_years(entry.value.rows), {},
                       sources(entry.value.rows), <<>>)

(* the user changes the "Select Years" multiselect *)
SelectYears(years) ==
    /\ "sidebar" \in run.done
    /\ years \subseteq available_years(cache.value.rows)
    /\ years # selected_years
    /\ Script(years, selected_journals, selected_sources, search_term)

(* the user changes the "Select Journals" multiselect *)
SelectJournals(journals) ==
    /\ "sidebar" \in run.done
    /\ journals \subseteq top_journals(cache.value.rows)
    /\ journals # selected_journals
    /\ Script(selected_years, journals, selected_sources, search_term)

(* the user changes the "Select Sources" multiselect *)
SelectSources(srcs) ==
    /\ "sidebar" \in run.done
    /\ srcs \subseteq sources(cache.value.rows)
    /\ srcs # selected_sources
    /\ Script(selected_years, selected_journals, srcs, search_term)

(* the user types in the search box, which the last run rendered *)
TypeSearch(term) ==
    /\ "tab4" \in run.done
    /\ term \in Terms
    /\ term # search_term
    /\ Script(selected_years, selected_journals, selected_sources, term)

(* the user reruns the script with the widgets as they are *)
Rerun ==
    /\ run.phase # "none"
    /\ Script(selected_years, selected_journals, selected_sources, search_term)

YearUniverse == {2019, 2020, 2021}

JournalUniverse == {"J1", "J2", UNKNOWN_JOURNAL}

SourceUniverse == {"S1", "S2", "S9"}

Next ==
    \/ FirstRun
    \/ \E years \in SUBSET YearUniverse : SelectYears(years)
    \/ \E journals \in SUBSET JournalUniverse : SelectJournals(journals)
    \/ \E srcs \in SUBSET SourceUniverse : SelectSources(srcs)
    \/ \E term \in Terms : TypeSearch(term)
    \/ Rerun

Spec == Init /\ [][Next]_vars

----------------------------------------------------------------------------
(* The filter of lines 105-111 and the series of line 197 as functions   *)
(* of the table and of any FilterSpec, the widgets' options aside        *)

(* load(source) *)
LoadTable ==
    /\ run.phase = "none"
    /\ LET entry == load_data(cache, fileExists, csv)
       IN  /\ cache' = entry
           /\ reads' = IF cache.hit THEN reads ELSE reads + 1
           /\ loaded0' = IF cache.hit THEN loaded0 ELSE entry.value
           /\ run' = [Blank EXCEPT
                         !.phase = IF entry.value.none THEN "stopped"
                                   ELSE "loaded",
                         !.done = {"load"},
                         !.message = entry.message,
                         !.df = entry.value]
    /\ UNCHANGED <<fileExists, csv, selected_years, selected_journals,
                   selected_sources, search_term>>

(* applyFilters(table, spec), and aggregateByYear of the view *)
Apply(years, journals, srcs) ==
    /\ run.phase = "loaded"
    /\ LET a == ApplyFilters(run.df.rows, years, journals, srcs)
       IN  run' = [run EXCEPT !.done = @ \cup {"filter", "by_year"},
                              !.df = Frame(a.df),
                              !.filtered_df = a.filtered_df,
                              !.yearly_counts = yearly_counts(a.filtered_df)]
    /\ selected_years' = years
    /\ selected_journals' = journals
    /\ selected_sources' = srcs
    /\ UNCHANGED <<fileExists, csv, cache, reads, loaded0, search_term>>

ApplyYears(years) ==
    /\ years # selected_years
    /\ Apply(years, selected_journals, selected_sources)

ApplyJournals(journals) ==
    /\ journals # selected_journals
    /\ Apply(selected_years, journals, selected_sources)

ApplySources(srcs) ==
    /\ srcs # selected_sources
    /\ Apply(selected_years, selected_journals, srcs)

QueryNext ==
    \/ LoadTable
    \/ \E years \in SUBSET YearUniverse : ApplyYears(years)
    \/ \E journals \in SUBSET JournalUniverse : ApplyJournals(journals)
    \/ \E srcs \in SUBSET SourceUniverse : ApplySources(srcs)

QuerySpec == Init /\ [][QueryNext]_vars

----------------------------------------------------------------------------
(* Properties *)

Started == run.phase \notin {"none", "stopped"}

YearsOf(rows) == {r.publish_year.v : r \in {x \in Range(rows) : ~x.publish_year.null}}

JournalsOf(rows) == {r.journal.v : r \in Range(rows)}

SourcesOf(rows) == {r.source_x.v : r \in Range(rows)}

(* the row meets every constraint of the FilterSpec that is not empty *)
Satisfies(r, years, journals, srcs) ==
    /\ years = {} \/ (~r.publish_year.null /\ r.publish_year.v \in years)
    /\ journals = {} \/ r.journal.v \in journals
    /\ srcs = {} \/ r.source_x.v \in srcs

InTableOrder(view) ==
    \A i, j \in 1..Len(view) : i < j => view[i].idx < view[j].idx

(* the view is the rows of the table that meet the FilterSpec, each once, *)
(* in the table's order                                                   *)
IsViewOf(view, table, years, journals, srcs) ==
    /\ \A i \in 1..Len(view) :
          /\ view[i] \in Range(table)
          /\ Satisfies(view[i], years, journals, srcs)
    /\ \A r \in Range(table) :
          Satisfies(r, years, journals, srcs)
              => Cardinality({i \in 1..Len(view) : view[i] = r}) = 1
    /\ InTableOrder(view)

(* C1: the filtered view holds exactly the rows of the table that satisfy *)
(* every non-empty constraint (year AND journal AND source), each exactly *)
(* once and in the table's order.                                         *)
C1_ViewIsExactlyTheMatchingRows ==
    "filter" \in run.done =>
        IsViewOf(run.filtered_df, loaded0.rows, selected_years,
                 selected_journals, selected_sources)

(* all three constraints are set, a row is kept and a row is left out *)
C1_Witness ==
    /\ "filter" \in run.done
    /\ selected_years # {} /\ selected_journals # {} /\ selected_sources # {}
    /\ Len(run.filtered_df) >= 1
    /\ Len(run.filtered_df) < Len(loaded0.rows)

(* C2: with years, journals and sources all empty the view is the whole  *)
(* table, same rows in the same order, rows without a year included.     *)
C2_EmptySpecIsIdentity ==
    ( /\ "filter" \in run.done
      /\ selected_years = {} /\ selected_journals = {} /\ selected_sources = {} )
        => run.filtered_df = loaded0.rows

(* nothing is selected and the table has two rows, one without a year *)
C2_Witness ==
    /\ "filter" \in run.done
    /\ selected_years = {} /\ selected_journals = {} /\ selected_sources = {}
    /\ Len(run.filtered_df) >= 2
    /\ \E i \in 1..Len(run.filtered_df) : run.filtered_df[i].publish_year.null
    /\ \E i \in 1..Len(run.filtered_df) : ~run.filtered_df[i].publish_year.null

(* C3: on an empty view the metrics are the sentinels: total 0, the      *)
(* full-text percentage 0 or not available (never NaN), the mean author   *)
(* count not available, the modes and the date range "N/A", the mean      *)
(* abstract length and the completeness 0, and nothing is raised.         *)
C3_EmptyViewGivesSentinels ==
    ("metrics" \in run.done /\ Len(run.filtered_df) = 0) =>
        /\ run.error = "none"
        /\ run.metrics.total = 0
        /\ run.metrics.full_text_pct \in {Frac(0, 1), NA}
        /\ run.metrics.avg_authors = NA
        /\ "insights" \in run.done
        /\ run.patterns.most_active_year = NA
        /\ run.patterns.date_min = NA
        /\ run.patterns.date_max = NA
        /\ run.patterns.avg_abstract_length = Frac(0, 1)
        /\ run.contributors.top_source = NA
        /\ run.contributors.top_journal = NA
        /\ run.contributors.complete_pct = Frac(0, 1)

(* the term is in the text as it is written, letter case aside *)
Occurs(term, cell) ==
    /\ ~cell.null
    /\ \E i \in 1..(Len(cell.v) - Len(term) + 1) :
          \A k \in 1..Len(term) : Lower(term[k]) = Lower(cell.v[i + k - 1])

(* C4: with a search term, the result is the rows of the view in whose   *)
(* title or abstract the term occurs as a substring, letter case aside,  *)
(* in the view's order.                                                   *)
C4_SearchIsSubstringMatch ==
    (Started /\ "tab4" \in run.done /\ search_term # <<>>) =>
        /\ "search" \in run.done
        /\ LET Hit(r) == Occurs(search_term, r.title)
                              \/ Occurs(search_term, r.abstract)
           IN  run.search_results = SelectSeq(run.filtered_df, Hit)

(* C5: a row whose abstract is missing in the file is in the search      *)
(* result only if the search matches its title.                          *)
C5_MissingAbstractNeverMatches ==
    "search" \in run.done =>
        \A i \in 1..Len(run.search_results) :
            LET r == run.search_results[i]
            IN  csv[r.idx + 1].abstract.null => str_contains(r.title, search_term)

RowsWithYear(view, y) ==
    Cardinality({i \in 1..Len(view) :
                    ~view[i].publish_year.null /\ view[i].publish_year.v = y})

RECURSIVE CountSum(_, _)
CountSum(series, n) ==
    IF n = 0 THEN 0 ELSE CountSum(series, n - 1) + series[n].count

(* C6: the per-year series is strictly ascending by year, has no entry   *)
(* for a missing year, counts the rows of the view per year, and its      *)
(* counts add up to the number of rows that have a year.                  *)
C6_YearSeriesSortedAndComplete ==
    "by_year" \in run.done =>
        LET series == run.yearly_counts
            view == run.filtered_df
        IN  /\ \A n \in 1..Len(series) :
                  /\ ~series[n].key.null
                  /\ series[n].count = RowsWithYear(view, series[n].key.v)
                  /\ series[n].count > 0
            /\ \A a, b \in 1..Len(series) :
                  a < b => series[a].key.v < series[b].key.v
            /\ {series[n].key.v : n \in 1..Len(series)} = YearsOf(view)
            /\ CountSum(series, Len(series))
                  = Cardinality({i \in 1..Len(view) : ~view[i].publish_year.null})

(* the series has two years and the view lists the later year first *)
C6_Witness ==
    /\ "by_year" \in run.done
    /\ Len(run.yearly_counts) >= 2
    /\ \E i, j \in 1..Len(run.filtered_df) :
          /\ i < j
          /\ ~run.filtered_df[i].publish_year.null
          /\ ~run.filtered_df[j].publish_year.null
          /\ run.filtered_df[i].publish_year.v > run.filtered_df[j].publish_year.v

(* the table is the one the first load made and is used as it was made *)
BaseTableKept ==
    Started =>
        /\ loaded0 = Frame(Clean(csv))
        /\ cache.value = loaded0
        /\ run.df = loaded0
        /\ "filter" \in run.done =>
              IsViewOf(run.filtered_df, Clean(csv), selected_years,
                       selected_journals, selected_sources)

(* an interaction leaves the loaded table and its cache entry as they are *)
BaseTableStep ==
    cache.hit => (cache' = cache /\ loaded0' = loaded0 /\ run'.df = run.df)

(* C7: through any sequence of interactions the base table stays what    *)
(* load made of the file (rows, order, derived columns), and the view is  *)
(* that of the current selections on it, whatever was selected before.    *)
C7_BaseTableNeverChanges == []BaseTableKept /\ [][BaseTableStep]_vars

(* after a change of the journal selection the view is smaller than the  *)
(* table and the table is still the loaded one                            *)
C7_Witness ==
    /\ "filter" \in run.done
    /\ selected_journals # {}
    /\ Len(run.filtered_df) < Len(loaded0.rows)
    /\ run.df = Frame(Clean(csv))

QuerySteps ==
    {"sidebar", "filter", "metrics", "insights", "by_year", "tab4", "search",
     "sample", "panels"}

(* a missing file stops the run after the load, with the message and     *)
(* without a table; the query steps run only on a loaded table            *)
LoadGuardsQueries ==
    /\ (run.phase # "none" /\ ~fileExists) =>
          /\ run.phase = "stopped"
          /\ run.error = "none"
          /\ run.message
          /\ run.df = None
          /\ run.df # Frame(<<>>)
          /\ run.done = {"load"}
          /\ reads = 1
    /\ (run.done \cap QuerySteps # {}) =>
          /\ fileExists
          /\ "load" \in run.done
          /\ ~run.df.none
          /\ ~run.message
          /\ reads = 1

(* once load_data has been called, the file is not read again *)
NoRetry == cache.hit => reads' = reads

(* C8: a missing file is reported as not found (no table, not an empty   *)
(* table), is not read again, and stops the run before any query step;   *)
(* with the file present the query steps run after the load.             *)
C8_NotFoundStopsBeforeQueries == []LoadGuardsQueries /\ [][NoRetry]_vars

(* the file is missing and the run has stopped after one read *)
C8_Witness ==
    /\ ~fileExists
    /\ run.phase = "stopped"
    /\ run.message
    /\ reads = 1

(* C9: on a non-empty view the modes, the date range and the sample are  *)
(* computed without an error, and a view of fewer than 5 rows is sampled  *)
(* whole, each row once.                                                  *)
C9_QueriesAreTotal ==
    (Started /\ "filter" \in run.done /\ Len(run.filtered_df) > 0) =>
        /\ "insights" \in run.done
        /\ search_term = <<>> =>
              /\ "sample" \in run.done
              /\ Len(run.sample_papers) = Min(SampleSize, Len(run.filtered_df))
              /\ \A i \in 1..Len(run.filtered_df) :
                    Cardinality({k \in 1..Len(run.sample_papers) :
                        run.sample_papers[k] = run.filtered_df[i]}) = 1

(* the selected values that are in no row of the table *)
UnknownYears == selected_years \ YearsOf(loaded0.rows)

UnknownJournals == selected_journals \ JournalsOf(loaded0.rows)

UnknownSources == selected_sources \ SourcesOf(loaded0.rows)

(* C10 as claimed: a selected value that is in no row changes nothing:   *)
(* the view is the one of the FilterSpec without that value, also when    *)
(* it is the only value of its set.                                       *)
C10_UnknownValueIsNoOp ==
    "filter" \in run.done =>
        /\ \A u \in UnknownYears :
              run.filtered_df = Filtered(loaded0.rows, selected_years \ {u},
                                         selected_journals, selected_sources)
        /\ \A u \in UnknownJournals :
              run.filtered_df = Filtered(loaded0.rows, selected_years,
                                         selected_journals \ {u}, selected_sources)
        /\ \A u \in UnknownSources :
              run.filtered_df = Filtered(loaded0.rows, selected_years,
                                         selected_journals, selected_sources \ {u})

(* C10 amended: a selected value that is in no row changes nothing as    *)
(* long as another value stays in its set; when it is the only value of   *)
(* its set the view is empty.                                             *)
C10_UnknownValueAmongOthersIsNoOp ==
    "filter" \in run.done =>
        /\ \A u \in UnknownYears :
              IF selected_years = {u} THEN run.filtered_df = <<>>
              ELSE run.filtered_df =
                       Filtered(loaded0.rows, selected_years \ {u},
                                selected_journals, selected_sources)
        /\ \A u \in UnknownJournals :
              IF selected_journals = {u} THEN run.filtered_df = <<>>
              ELSE run.filtered_df =
                       Filtered(loaded0.rows, selected_years,
                                selected_journals \ {u}, selected_sources)
        /\ \A u \in UnknownSources :
              IF selected_sources = {u} THEN run.filtered_df = <<>>
              ELSE run.filtered_df =
                       Filtered(loaded0.rows, selected_years,
                                selected_journals, selected_sources \ {u})

(* an unknown year is selected next to a known one and rows are kept *)
C10_Witness ==
    /\ "filter" \in run.done
    /\ UnknownYears # {}
    /\ selected_years \ UnknownYears # {}
    /\ Len(run.filtered_df) >= 1

====
